---- MODULE Spec2Model ----
(***************************************************************************)
(* A model of github-activity-bot (src/main.rs).                           *)
(*                                                                         *)
(* Spec        the process: main, the cron job and the run_once pipeline   *)
(*             (make_changes, get_repository_files, create_pull_request,   *)
(*             approve_and_merge_pr) over one working copy, one remote and *)
(*             the hosting API's pull requests.                            *)
(* SpecSelect  the target selection of make_changes as a function of the   *)
(*             configuration and the candidate list.                       *)
(* SpecModify  modify_file, character by character: read, lines(), the     *)
(*             choice of the edit count, the edit loop, join and write.    *)
(* SpecLive    one run_once invocation as main awaits it with --run-now,   *)
(*             under fairness of the run's steps.                          *)
(* SpecNew     GitHubBot::new as a function of the token and config.repo.  *)
(* SpecSeed    get_repository_files and collect_files over a working tree  *)
(*             and the commits of its branches.                            *)
(***************************************************************************)
EXTENDS Integers, Sequences, FiniteSets, TLC

(* ------------------------------ bounds --------------------------------- *)

\* run_once invocations the process starts
MaxRuns == 2
\* the last second the clock (Utc::now().timestamp()) shows
MaxTime == 1
\* candidate files in the working tree when the process starts
MaxTree == 1
\* candidate files handed to the target selection
MaxCand == 3
\* the largest min_files, max_files, min_lines or max_lines of a configuration
\* handed to the target selection or to modify_file
MaxCount == 2
\* characters of a file handed to modify_file
MaxLen == 3
\* characters of a repo string handed to GitHubBot::new
MaxRepo == 6
\* files in the working tree handed to get_repository_files
MaxFiles == 2

(* ----------------------------- variables ------------------------------- *)

VARIABLES
    \* main
    run_now,        \* args.run_now
    config,         \* Config: min_files, max_files, min_lines, max_lines
    proc,           \* "running" | "exit_ok" | "exit_err" | "panicked"
    sched,          \* "none" | "started": the JobScheduler
    started,        \* run_once invocations started so far
    \* the world the collaborators act on
    clock,          \* Utc::now().timestamp()
    local,          \* branches of the working copy
    remote,         \* branches of origin
    head,           \* the branch checked out in the working copy
    tree,           \* allow-listed files in the working tree
    prs,            \* pull requests of the repository
    \* one run_once invocation each
    pc,             \* the next operation of the run, or how it ended
    main_branch,    \* make_changes: main_branch
    branch_name,    \* make_changes: branch_name
    files,          \* make_changes: files.len()
    nsel,           \* make_changes: files_to_change.len()
    pr,             \* run_once: pr, known by its head ("" before it is opened)
    log,            \* the operations the run invoked, in order, with results
    \* the target selection of make_changes on its own
    sel,            \* "off" | "start" | "done" | "panic" | "committed" | "err"
    candidates,     \* files: the candidate paths, as collect_files lists them
    files_to_change,
    commit_message, \* make_changes: commit_message, by the pieces it is made of
    \* modify_file on its own
    mpc,            \* "off" | "read" | "choose" | "edit" | "written" |
                    \* "skipped" | "err" | "panic" | "index_panic"
    content,        \* the file as read, a sequence of characters
    modified_lines,
    num_lines_to_change,
    edits,          \* iterations of the edit loop so far
    new_content,    \* the file as written
    \* GitHubBot::new on its own
    npc,            \* "off" | "start" | "ok" | "err"
    token,          \* whether GITHUB_TOKEN is set
    repo,           \* config.repo, a sequence of characters
    repo_owner,
    repo_name,
    \* get_repository_files on its own
    gpc,            \* "off" | "walk" | "seed_lib" | "seed_readme" | "seed_commit" |
                    \* "seed_push" | "rewalk" | "returned" | "err"
    primary_branch, \* the primary branch of the repository
    wt,             \* the files of the working tree
    result,         \* result: the relative paths collected
    was_empty,      \* whether the first walk found nothing
    local_refs,     \* the files committed on each local branch
    origin_refs     \* the files committed on each branch of origin

mainVars == <<run_now, config, proc, sched, started>>
worldVars == <<clock, local, remote, head, tree, prs>>
runVars == <<pc, main_branch, branch_name, files, nsel, pr, log>>
selVars == <<sel, candidates, files_to_change, commit_message>>
modVars == <<mpc, content, modified_lines, num_lines_to_change, edits, new_content>>
newVars == <<npc, token, repo, repo_owner, repo_name>>
seedVars == <<gpc, primary_branch, wt, result, was_empty, local_refs, origin_refs>>
unitVars == <<selVars, modVars, newVars, seedVars>>
vars == <<mainVars, worldVars, runVars, unitVars>>

Runs == 1..MaxRuns

(* ----------------------------- helpers --------------------------------- *)

Min(a, b) == IF a <= b THEN a ELSE b

Max(a, b) == IF a >= b THEN a ELSE b

Last(s) == s[Len(s)]

\* format!("bot-update-{}", timestamp)
BotBranch(t) == "bot-update-" \o ToString(t)

Primaries == {"main", "master"}

IsBotBranch(b) == b \notin Primaries /\ b # ""

\* The files get_repository_files writes when the walk finds nothing:
\* src/lib.rs and README.md.
SeedFiles == 2

\* The configurations a process is started with here: a usual one, and one
\* whose file range is empty (Config carries four unconstrained usize fields).
RunConfigs ==
    { [min_files |-> 1, max_files |-> 1, min_lines |-> 1, max_lines |-> 2],
      [min_files |-> 2, max_files |-> 1, min_lines |-> 1, max_lines |-> 1] }

Terminal == {"ok", "err", "panic"}

(* --------------------------- the pipeline ------------------------------ *)

\* A call whose result is dropped (`let _ = ...;`) instead of propagated.
PropagateSwallowed(res, next) == next

\* The `?` after a fallible call: the run goes on after Ok and returns the
\* error otherwise (a panic unwinds the same way).
Propagate(res, next) == IF res = "ok" THEN next ELSE res

\* What a collaborator call can answer: it may always fail (I/O, network,
\* a dirty tree), and it fails for certain when its precondition is not met.
Outcomes(pre) == IF pre THEN {"ok", "err"} ELSE {"err"}

\* An operation as recorded: its name, the primary branch it names or, for
\* the probe, resolves (if any), its result.
Entry(op, primary, res) == [op |-> op, primary |-> primary, res |-> res]

\* A collaborator call a run is about to make, with the results it can have.
Call(op, primary, results) == [op |-> op, primary |-> primary, results |-> results]

\* The ways a row of calls can go: all succeed, or one of them fails in one
\* of its ways after those before it succeeded.
Courses(calls) ==
    LET n == Len(calls)
        CanPass(k) == \A i \in 1..k : "ok" \in calls[i].results
        Course(k, how) ==
            [i \in 1..n |-> Entry(calls[i].op, calls[i].primary,
                                  IF i = k THEN how ELSE "ok")]
    IN (IF CanPass(n) THEN {Course(0, "ok")} ELSE {})
       \cup UNION { {Course(k, how) : how \in calls[k].results \ {"ok"}} :
                    k \in {j \in 1..n : CanPass(j - 1)} }

\* A caller that invokes the operation that failed a second time before it
\* gives up.
InvokedRetrying(course) ==
    LET failed == {i \in 1..Len(course) : course[i].res # "ok"}
        first == CHOOSE i \in failed : \A j \in failed : i <= j
    IN IF failed = {} THEN course
       ELSE SubSeq(course, 1, first) \o <<course[first]>>

\* The operations of a course that are invoked: all up to the first that fails.
RECURSIVE Invoked(_)
Invoked(course) ==
    IF course = <<>> THEN <<>>
    ELSE IF Propagate(course[1].res, "ok") = "ok"
         THEN <<course[1]>> \o Invoked(Tail(course))
         ELSE <<course[1]>>

\* Operation op was invoked and succeeded.
Did(done, op) == \E i \in 1..Len(done) : done[i].op = op /\ done[i].res = "ok"

\* Operation op was invoked.
Tried(done, op) == \E i \in 1..Len(done) : done[i].op = op

\* Run r takes a course: its invoked operations are recorded, and the run
\* moves to `next` or ends with the failure.
Steps(r, course, next) ==
    /\ log' = [log EXCEPT ![r] = @ \o Invoked(course)]
    /\ pc' = [pc EXCEPT ![r] = Propagate(Last(Invoked(course)).res, next)]

\* The locals of run r after a step: the values given, or none once the run
\* has returned (or unwound) and they are dropped.
Locals(r, mb, bn, f, n, p) ==
    LET returned == pc'[r] \in Terminal
    IN /\ main_branch' = [main_branch EXCEPT ![r] = IF returned THEN "" ELSE mb]
       /\ branch_name' = [branch_name EXCEPT ![r] = IF returned THEN "" ELSE bn]
       /\ files' = [files EXCEPT ![r] = IF returned THEN 0 ELSE f]
       /\ nsel' = [nsel EXCEPT ![r] = IF returned THEN 0 ELSE n]
       /\ pr' = [pr EXCEPT ![r] = IF returned THEN "" ELSE p]

At(r, p) == proc = "running" /\ pc[r] = p

\* make_changes: "main" if a local branch main exists, else "master", else none.
ResolveMain(branches) ==
    IF "main" \in branches THEN "main"
    ELSE IF "master" \in branches THEN "master"
    ELSE ""

\* make_changes up to the working branch: Repository::open and the probe for
\* the primary branch; git checkout <main_branch>; git pull origin
\* <main_branch>; Utc::now().timestamp(); git checkout -b bot-update-<timestamp>.
\* The clock is read here only: it shows the time of the last reading or a
\* later one.
Branch(r) ==
    /\ At(r, "open_repo")
    /\ \E now \in clock..MaxTime :
         LET mb == ResolveMain(local)
             bn == BotBranch(now)
             calls == <<Call("open_repo", mb, Outcomes(mb # "")),
                        Call("checkout", mb, Outcomes(mb \in local)),
                        Call("pull", mb, Outcomes(mb \in remote)),
                        Call("checkout_b", "", Outcomes(bn \notin local))>>
         IN \E course \in Courses(calls) :
              LET done == Invoked(course)
              IN /\ clock' = IF Tried(done, "checkout_b") THEN now ELSE clock
                 /\ local' = IF Did(done, "checkout_b") THEN local \cup {bn} ELSE local
                 /\ head' = IF Did(done, "checkout_b") THEN bn
                            ELSE IF Did(done, "checkout") THEN mb
                            ELSE head
                 /\ Steps(r, course, "collect")
                 /\ Locals(r, mb, bn, files[r], nsel[r], pr[r])
    /\ UNCHANGED <<unitVars, mainVars, remote, tree, prs>>

\* get_repository_files: the first walk (collect_files).
Collect(r) ==
    /\ At(r, "collect")
    /\ \E course \in Courses(<<Call("collect", "", Outcomes(TRUE))>>) :
         Steps(r, course, IF tree = 0 THEN "seed" ELSE "select")
    /\ Locals(r, main_branch[r], branch_name[r], tree, nsel[r], pr[r])
    /\ UNCHANGED <<unitVars, mainVars, worldVars>>

\* get_repository_files, when the walk found nothing: create_dir_all, write
\* src/lib.rs, write README.md if it does not exist (a failure leaves none or
\* the first of the files); git add .; git commit -m "Add initial files";
\* git push origin main; the second walk.
Seed(r) ==
    /\ At(r, "seed")
    /\ \E course \in Courses(<<Call("seed_write", "", Outcomes(TRUE)),
                               Call("seed_add", "", Outcomes(TRUE)),
                               Call("seed_commit", "", Outcomes(TRUE)),
                               Call("seed_push", "main", Outcomes("main" \in local)),
                               Call("recollect", "", Outcomes(TRUE))>>) :
         LET done == Invoked(course)
         IN /\ \/ Did(done, "seed_write") /\ tree' = Max(tree, SeedFiles)
               \/ ~Did(done, "seed_write") /\ tree' \in {tree, Max(tree, 1)}
            /\ remote' = IF Did(done, "seed_push") THEN remote \cup {"main"} ELSE remote
            /\ Steps(r, course, "select")
            /\ Locals(r, main_branch[r], branch_name[r], tree', nsel[r], pr[r])
    /\ UNCHANGED <<unitVars, mainVars, clock, local, head, prs>>

\* Whether gen_range(min_lines..=max_lines.min(lines.len())) of modify_file
\* can meet an empty range on some file with at least one line.
EditCountMayPanic ==
    config.min_lines > config.max_lines \/ config.min_lines > 1

\* What the loop over files_to_change can end in, for n files.
ModifyOutcomes(n) ==
    IF n = 0 THEN {"ok"}
    ELSE {"ok", "err"} \cup (IF EditCountMayPanic THEN {"panic"} ELSE {})

\* The counts rng.gen_range(min_files..=max_files) can give; none when the
\* range is empty, and gen_range panics.
FileCounts == config.min_files..config.max_files

\* make_changes from the selection on: rng.gen_range(min_files..=max_files);
\* files.choose_multiple(&mut rng, n), which yields min(n, files.len()) files;
\* modify_file on each of them; git add .; git commit -m "Update files <date>";
\* git push --set-upstream origin <branch_name>.
Mutate(r) ==
    /\ At(r, "select")
    /\ \E n \in IF FileCounts = {} THEN {0} ELSE FileCounts :
         LET chosen == Min(n, files[r])
             calls == <<Call("select", "", IF FileCounts = {} THEN {"panic"} ELSE {"ok"}),
                        Call("modify", "", ModifyOutcomes(chosen)),
                        Call("add", "", Outcomes(TRUE)),
                        Call("commit", "", Outcomes(TRUE)),
                        Call("push_upstream", "", Outcomes(branch_name[r] \in local))>>
         IN \E course \in Courses(calls) :
              /\ remote' = IF Did(Invoked(course), "push_upstream")
                           THEN remote \cup {branch_name[r]} ELSE remote
              /\ Steps(r, course, "create_pr")
              /\ Locals(r, main_branch[r], branch_name[r], files[r], chosen, pr[r])
    /\ UNCHANGED <<unitVars, mainVars, clock, local, head, tree, prs>>

OpenPRs == {p \in prs : p.state = "open"}

\* create_pull_request: pulls.create(title, branch_name, "main"). The API
\* refuses a head or base that is no branch of the repository and a second
\* open request for the same head.
CreatePR(r) ==
    /\ At(r, "create_pr")
    /\ \E course \in Courses(<<Call("create_pr", "main",
                                    Outcomes(/\ branch_name[r] \in remote
                                             /\ "main" \in remote
                                             /\ \A p \in OpenPRs :
                                                  p.head # branch_name[r]))>>) :
         /\ prs' = IF Did(Invoked(course), "create_pr")
                   THEN prs \cup {[head |-> branch_name[r], base |-> "main",
                                   state |-> "open"]}
                   ELSE prs
         /\ Steps(r, course, "wait")
    /\ Locals(r, main_branch[r], branch_name[r], files[r], nsel[r], branch_name[r])
    /\ UNCHANGED <<unitVars, mainVars, clock, local, remote, head, tree>>

\* A merge call that closes the pull request when the merge is refused.
MergedOrClosed(ps, h, merged) ==
    {IF p.head = h /\ p.state = "open"
     THEN [p EXCEPT !.state = IF merged THEN "merged" ELSE "closed"]
     ELSE p : p \in ps}

\* The pull requests after pulls.merge on the open request with head h: the
\* request is merged, or the call failed and nothing has changed.
AfterMerge(ps, h, merged) ==
    IF merged
    THEN {IF p.head = h /\ p.state = "open"
          THEN [p EXCEPT !.state = "merged"] ELSE p : p \in ps}
    ELSE ps

\* run_once: time::sleep of 60..180 seconds; approve_and_merge_pr:
\* time::sleep of 30 seconds, then pulls.merge(pr_number) with
\* MergeMethod::Squash; run_once returns Ok(()) right after it.
Merge(r) ==
    /\ At(r, "wait")
    /\ \E course \in Courses(<<Call("wait", "", {"ok"}),
                               Call("pre_merge_delay", "", {"ok"}),
                               Call("merge", "", Outcomes(\E p \in OpenPRs :
                                                                  p.head = pr[r]))>>) :
         /\ prs' = AfterMerge(prs, pr[r], Did(Invoked(course), "merge"))
         /\ Steps(r, course, "ok")
    /\ Locals(r, main_branch[r], branch_name[r], files[r], nsel[r], pr[r])
    /\ UNCHANGED <<unitVars, mainVars, clock, local, remote, head, tree>>

(* ------------------------ main and the scheduler ----------------------- *)

StartRun ==
    /\ started' = started + 1
    /\ pc' = [pc EXCEPT ![started + 1] = "open_repo"]

\* main with --run-now: bot.run_once().await
RunNow ==
    /\ proc = "running" /\ run_now /\ started = 0
    /\ StartRun
    /\ UNCHANGED <<unitVars, run_now, config, proc, sched, worldVars,
                   main_branch, branch_name, files, nsel, pr, log>>

\* A main that reports success whatever the run returned.
ExitStatusIgnored(res) == "exit_ok"

\* main with --run-now: `return Err(e)` after an error, `return Ok(())` after
\* a success; a panic of the run unwinds main.
ExitStatus(res) ==
    CASE res = "ok" -> "exit_ok"
      [] res = "err" -> "exit_err"
      [] OTHER -> "panicked"

\* A job whose closure hands the result of the run on to main in either mode.
MainReturnAnyMode ==
    /\ proc = "running" /\ started >= 1 /\ pc[1] \in Terminal
    /\ proc' = ExitStatus(pc[1])
    /\ UNCHANGED <<unitVars, run_now, config, sched, started, worldVars, runVars>>

\* main with --run-now: the process ends with the result of the run.
MainReturn ==
    /\ proc = "running" /\ run_now /\ started = 1 /\ pc[1] \in Terminal
    /\ proc' = ExitStatus(pc[1])
    /\ UNCHANGED <<unitVars, run_now, config, sched, started, worldVars, runVars>>

\* main: JobScheduler::new, scheduler.add(Job::new_async(..)), scheduler.start,
\* each of which may fail (a cron expression that does not parse).
SchedulerStart ==
    /\ proc = "running" /\ ~run_now /\ sched = "none"
    /\ \E res \in Outcomes(TRUE) :
         /\ sched' = IF res = "ok" THEN "started" ELSE sched
         /\ proc' = IF res = "ok" THEN proc ELSE "exit_err"
    /\ UNCHANGED <<unitVars, run_now, config, started, worldVars, runVars>>

\* The cron schedule fires: the scheduler spawns the job's future, which
\* calls run_once on a clone of the bot. The job holds no flag or lock.
Trigger ==
    /\ proc = "running" /\ sched = "started" /\ started < MaxRuns
    /\ StartRun
    /\ UNCHANGED <<unitVars, run_now, config, proc, sched, worldVars,
                   main_branch, branch_name, files, nsel, pr, log>>

\* The state of the parts that are not running.
PipelineOff ==
    /\ run_now = FALSE
    /\ proc = "running"
    /\ sched = "none"
    /\ started = 0
    /\ clock = 0
    /\ local = {"main"}
    /\ remote = {"main"}
    /\ head = "main"
    /\ tree = 0
    /\ prs = {}
    /\ pc = [r \in Runs |-> "idle"]
    /\ main_branch = [r \in Runs |-> ""]
    /\ branch_name = [r \in Runs |-> ""]
    /\ files = [r \in Runs |-> 0]
    /\ nsel = [r \in Runs |-> 0]
    /\ pr = [r \in Runs |-> ""]
    /\ log = [r \in Runs |-> <<>>]

SelOff ==
    /\ sel = "off"
    /\ candidates = <<>>
    /\ files_to_change = <<>>
    /\ commit_message = <<>>

ModOff ==
    /\ mpc = "off"
    /\ content = <<>>
    /\ modified_lines = <<>>
    /\ num_lines_to_change = 0
    /\ edits = 0
    /\ new_content = <<>>

NewOff ==
    /\ npc = "off"
    /\ token = TRUE
    /\ repo = <<>>
    /\ repo_owner = <<>>
    /\ repo_name = <<>>

SeedOff ==
    /\ gpc = "off"
    /\ primary_branch = "main"
    /\ wt = {}
    /\ result = {}
    /\ was_empty = FALSE
    /\ local_refs = <<>>
    /\ origin_refs = <<>>

\* The branches of the repository when the process starts: a primary branch
\* of either name, none, or (for a single run) both.
Repositories ==
    {{"main"}, {"master"}, {"dev"}} \cup (IF run_now THEN {{"main", "master"}} ELSE {})

Init ==
    /\ run_now \in BOOLEAN
    /\ config \in RunConfigs
    /\ proc = "running"
    /\ sched = "none"
    /\ started = 0
    /\ clock = 0
    /\ local \in Repositories
    /\ remote = local
    /\ head = IF "master" \in local THEN "master" ELSE ResolveMain(local \cup {"dev"})
    /\ tree \in {0, MaxTree}
    /\ prs = {}
    /\ pc = [r \in Runs |-> "idle"]
    /\ main_branch = [r \in Runs |-> ""]
    /\ branch_name = [r \in Runs |-> ""]
    /\ files = [r \in Runs |-> 0]
    /\ nsel = [r \in Runs |-> 0]
    /\ pr = [r \in Runs |-> ""]
    /\ log = [r \in Runs |-> <<>>]
    /\ SelOff
    /\ ModOff
    /\ NewOff
    /\ SeedOff

RunStep(r) ==
    \/ Branch(r) \/ Collect(r) \/ Seed(r)
    \/ Mutate(r) \/ CreatePR(r) \/ Merge(r)

Next ==
    \/ RunNow \/ MainReturn \/ SchedulerStart \/ Trigger
    \/ \E r \in Runs : RunStep(r)

Spec == Init /\ [][Next]_vars

\* One run_once invocation from its start to its return, as main awaits it
\* with --run-now.
InitLive == Init /\ run_now

NextLive == RunNow \/ MainReturn \/ RunStep(1)

\* The run as the runtime drives it: the future of run_once is polled until
\* it returns, and each of its calls returns (a child process exits, a
\* request is answered, a sleep ends).
SpecLive == InitLive /\ [][NextLive]_vars /\ WF_vars(RunStep(1))

(* ------------------- properties of the pipeline ------------------------ *)

\* The stage of the orchestrator each operation belongs to, in the order
\* BRANCHING, MUTATING, COMMITTING, PUSHING, REQUESTING, WAITING, MERGING.
\* No operation of the code belongs to CLEANING_UP, which would be stage 8.
StageOf(op) ==
    CASE op \in {"open_repo", "checkout", "pull", "checkout_b"} -> 1
      [] op \in {"collect", "seed_write", "seed_add", "seed_commit", "seed_push",
                 "recollect", "select", "modify"} -> 2
      [] op \in {"add", "commit"} -> 3
      [] op = "push_upstream" -> 4
      [] op = "create_pr" -> 5
      [] op = "wait" -> 6
      [] op \in {"pre_merge_delay", "merge"} -> 7

Failed(r) == pc[r] \in {"err", "panic"}

Executing(r) == pc[r] \notin {"idle"} \cup Terminal

BotBranches == {b \in local \cup remote : IsBotBranch(b)}

\* Run r takes a step that ends it in `how`.
Ends(r, how) == pc[r] \notin Terminal /\ pc'[r] \in how

\* C1: an operation that fails is the last operation its run invokes, and the
\* run ends with that failure: a failed run's last operation is the failed
\* one, every operation before it succeeded and belongs to the same stage or
\* an earlier one; when the push of the run's branch fails, the run opens no
\* pull request.
C1_FailFast ==
    \A r \in Runs :
      /\ \A i \in 1..Len(log[r]) :
           log[r][i].res # "ok" => i = Len(log[r]) /\ pc[r] = log[r][i].res
      /\ Failed(r) =>
           /\ log[r] # <<>>
           /\ Last(log[r]).res = pc[r]
           /\ \A i \in 1..Len(log[r]) :
                /\ StageOf(log[r][i].op) <= StageOf(Last(log[r]).op)
                /\ Last(log[r]).op = "push_upstream" => log[r][i].op # "create_pr"

\* C1 witness: a run failed at the push of its branch, after the operations
\* of the earlier stages had succeeded.
C1_Witness ==
    \E r \in Runs :
      /\ pc[r] = "err"
      /\ Last(log[r]).op = "push_upstream"
      /\ Len(log[r]) > 1

\* C2: at most one run_once invocation is executing at any time.
C2_SingleFlight ==
    Cardinality({r \in Runs : Executing(r)}) <= 1

\* C3: when a run reports success, the working copy is on the primary branch
\* and the run's bot-update branch exists neither locally nor on the remote.
C3_CleanedUp ==
    [][\A r \in Runs :
         Ends(r, {"ok"}) =>
           /\ head' = main_branch[r]
           /\ branch_name[r] \notin local'
           /\ branch_name[r] \notin remote']_vars

\* C4: at most one bot-created branch and at most one open bot-created pull
\* request exist at the same time.
C4_OneBranchOnePR ==
    /\ Cardinality(BotBranches) <= 1
    /\ Cardinality(OpenPRs) <= 1

\* C5: every operation of a run that names the primary branch (the checkout,
\* the pull, the push of the seed files, the base of the pull request) names
\* the branch the run resolved at its start.
C5_ResolvedPrimary ==
    \A r \in Runs :
      \A i \in 1..Len(log[r]) :
        log[r][i].op \in {"checkout", "pull", "seed_push", "create_pr"} =>
          log[r][i].primary = log[r][1].primary

\* C11: in scheduled mode a failed run never ends the process: once a run
\* has failed (or panicked) the process is still running, the scheduler is
\* still started, and a trigger starts another run (as long as the bound on
\* the runs of a behaviour allows one).
C11_SchedulerSurvives ==
    (~run_now /\ \E r \in Runs : Failed(r)) =>
      /\ proc = "running"
      /\ sched = "started"
      /\ started < MaxRuns => ENABLED Trigger

\* C11 witness: in scheduled mode a run has failed in the middle and a later
\* run has been started.
C11_Witness ==
    /\ ~run_now
    /\ \E r \in Runs, q \in Runs :
         /\ r < q
         /\ pc[r] = "err" /\ Len(log[r]) > 4
         /\ Executing(q)

\* C12: with --run-now the process starts run_once at most once and never
\* the scheduler, and it exits only after that one run has ended, with
\* success exactly if the run succeeded.
C12_RunNowOnce ==
    run_now =>
      /\ started <= 1
      /\ sched = "none"
      /\ proc # "running" =>
           /\ started = 1
           /\ pc[1] \in Terminal
           /\ proc = "exit_ok" <=> pc[1] = "ok"

\* C12 witness: a process started with --run-now has exited with an error of
\* its run.
C12_Witness ==
    run_now /\ proc = "exit_err" /\ pc[1] = "err"

\* C13: every run that was started ends (in "ok", "err" or a panic), and no
\* run invokes an operation a second time.
C13_TerminatesNoRetry ==
    /\ [](\A r \in Runs : \A i, j \in 1..Len(log[r]) :
            log[r][i].op = log[r][j].op => i = j)
    /\ \A r \in Runs : Executing(r) ~> (pc[r] \in Terminal)

\* C13 witness: a run has ended with the failure of an operation in its
\* middle, which it invoked once.
C13_Witness ==
    \E r \in Runs :
      /\ pc[r] = "err"
      /\ Last(log[r]).op = "commit"
      /\ Cardinality({i \in 1..Len(log[r]) : log[r][i].op = "commit"}) = 1

\* The invariant of a run configuration.
ValidConfig ==
    /\ config.min_files <= config.max_files
    /\ config.min_lines <= config.max_lines

\* C15: every run_once invocation operates on a configuration with
\* min_files <= max_files and min_lines <= max_lines.
C15_ConfigValidated ==
    \A r \in Runs : pc[r] # "idle" => ValidConfig

\* C19: no step deletes a branch or closes a pull request, and the step in
\* which a run fails after it created its branch leaves the working copy on
\* the branch it was on and keeps the run's branch, locally and (if it was
\* pushed) on origin, and the run's pull request (if one was opened) as
\* they were.
C19_NoCompensation ==
    [][/\ local \subseteq local'
       /\ remote \subseteq remote'
       /\ \A p \in prs : p \in prs' \/ [p EXCEPT !.state = "merged"] \in prs'
       /\ \A r \in Runs :
            (Ends(r, {"err", "panic"}) /\ branch_name[r] \in local) =>
              /\ head' = head
              /\ branch_name[r] \in local'
              /\ branch_name[r] \in remote => branch_name[r] \in remote'
              /\ \A p \in prs : p.head = branch_name[r] => p \in prs'
              /\ \A i \in (Len(log[r]) + 1)..Len(log'[r]) :
                   StageOf(log'[r][i].op) >= StageOf(Last(log[r]).op)]_vars

\* C19 witness: a run has failed at the merge, and its branch is still
\* checked out and on origin and its pull request still open.
C19_Witness ==
    \E r \in Runs :
      /\ pc[r] = "err"
      /\ Last(log[r]).op = "merge"
      /\ IsBotBranch(head)
      /\ head \in remote
      /\ \E p \in OpenPRs : p.head = head

(* ------------------------ target selection ----------------------------- *)

\* The sequences of k pairwise different elements of S.
InjectiveSeqs(S, k) ==
    {q \in [1..k -> S] : \A i, j \in 1..k : i # j => q[i] # q[j]}

\* Any k elements of S in a row, the same one possibly more than once.
ChosenWithRepeats(list, amount) ==
    LET k == Min(amount, Len(list))
    IN {[i \in 1..k |-> list[q[i]]] : q \in [1..k -> 1..Len(list)]}

\* SliceRandom::choose_multiple(rng, amount): min(amount, list.len()) elements
\* of the slice at pairwise different positions, in any order.
ChooseMultiple(list, amount) ==
    LET k == Min(amount, Len(list))
    IN {[i \in 1..k |-> list[q[i]]] : q \in InjectiveSeqs(1..Len(list), k)}

\* A repository-relative path.
Path(i) == "f" \o ToString(i)

\* What get_repository_files can return: each file once, in directory order,
\* and at least one file, since it writes the seed files when it finds none.
CandidateLists ==
    UNION {InjectiveSeqs({Path(i) : i \in 1..MaxCand}, k) : k \in 1..MaxCand}

\* make_changes, lines 130-133: the count, then the files.
SelectTargets ==
    /\ sel = "start"
    /\ IF config.min_files > config.max_files
       THEN /\ sel' = "panic"
            /\ files_to_change' = files_to_change
       ELSE \E n \in config.min_files..config.max_files :
            \E chosen \in ChooseMultiple(candidates, n) :
              /\ files_to_change' = chosen
              /\ sel' = "done"
    /\ UNCHANGED <<mainVars, worldVars, runVars, newVars, seedVars, candidates,
                   commit_message, modVars>>

\* format!("Update files {}", Utc::now().format("%Y-%m-%d %H:%M:%S")): the
\* text and the one value the format string takes.
CommitMessage(now) == [text |-> "Update files", time |-> now]

\* make_changes after the files were modified: the commit message, git add .
\* and git commit -m <commit_message>, either of which can fail.
CommitChanges ==
    /\ sel = "done"
    /\ \E now \in 0..MaxTime, res \in {"committed", "err"} :
         /\ commit_message' = CommitMessage(now)
         /\ sel' = res
    /\ UNCHANGED <<mainVars, worldVars, runVars, newVars, seedVars, candidates,
                   files_to_change, modVars>>

InitSelect ==
    /\ PipelineOff
    /\ ModOff
    /\ NewOff
    /\ SeedOff
    /\ config \in [min_files : 0..MaxCount, max_files : 0..MaxCount,
                   min_lines : {0}, max_lines : {0}]
    /\ sel = "start"
    /\ candidates \in CandidateLists
    /\ files_to_change = <<>>
    /\ commit_message = <<>>

NextSelect == SelectTargets \/ CommitChanges

SpecSelect == InitSelect /\ [][NextSelect]_vars

Range(q) == {q[i] : i \in 1..Len(q)}

\* C6, as claimed: the selection is a list of pairwise distinct candidates
\* whose length is at least min_files and at most min(max_files, candidates).
C6_CountInRange ==
    sel = "done" =>
      /\ Range(files_to_change) \subseteq Range(candidates)
      /\ Cardinality(Range(files_to_change)) = Len(files_to_change)
      /\ config.min_files <= Len(files_to_change)
      /\ Len(files_to_change) <= Min(config.max_files, Len(candidates))

\* C6, amended: the selection is a list of pairwise distinct candidates whose
\* length is at least min(min_files, candidates) and at most
\* min(max_files, candidates).
C6_CountClamped ==
    sel = "done" =>
      /\ Range(files_to_change) \subseteq Range(candidates)
      /\ Cardinality(Range(files_to_change)) = Len(files_to_change)
      /\ Min(config.min_files, Len(candidates)) <= Len(files_to_change)
      /\ Len(files_to_change) <= Min(config.max_files, Len(candidates))

\* C6 witness: there are fewer candidates than min_files, and all of them
\* were selected.
C6_Witness ==
    /\ sel = "done"
    /\ config.min_files <= config.max_files
    /\ Len(candidates) < config.min_files
    /\ Len(files_to_change) = Len(candidates)

\* C17: the message of the mutation commit states the number of files
\* selected for modification.
C17_MessageStatesCount ==
    sel = "committed" =>
      /\ "count" \in DOMAIN commit_message
      /\ commit_message.count = Len(files_to_change)

(* ----------------------------- modify_file ---------------------------- *)

\* The characters of a file: a letter, a space, and the two characters line
\* terminators are made of.
Chars == {"a", " ", "\r", "\n"}

\* format!("// Bot update: {}", Utc::now()), as one symbol
BotMark == "// Bot update: <now>"

\* format!("// TODO: Update this line - bot modification {}", Utc::now())
TodoMark == "// TODO: Update this line - bot modification <now>"

\* char::is_whitespace, on the characters above
IsWhitespace(c) == c \in {" ", "\r", "\n"}

Contents == UNION {[1..n -> Chars] : n \in 0..MaxLen}

\* The position of the first "\n" of s, or 0.
FirstNewline(s) ==
    IF \E i \in 1..Len(s) : s[i] = "\n"
    THEN CHOOSE i \in 1..Len(s) :
           s[i] = "\n" /\ \A j \in 1..(i - 1) : s[j] # "\n"
    ELSE 0

\* A line without the "\r" that stood before its "\n".
StripCR(l) ==
    IF l # <<>> /\ l[Len(l)] = "\r" THEN SubSeq(l, 1, Len(l) - 1) ELSE l

\* str::lines: the pieces between "\n"s, each without its "\n" or "\r\n"; the
\* text after the last "\n" is a line only if it is not empty.
RECURSIVE Lines(_)
Lines(s) ==
    IF s = <<>> THEN <<>>
    ELSE LET p == FirstNewline(s)
         IN IF p = 0 THEN <<s>>
            ELSE <<StripCR(SubSeq(s, 1, p - 1))>> \o Lines(SubSeq(s, p + 1, Len(s)))

\* [String]::join("\n")
RECURSIVE Join(_)
Join(ls) ==
    IF ls = <<>> THEN <<>>
    ELSE IF Len(ls) = 1 THEN ls[1]
    ELSE ls[1] \o <<"\n">> \o Join(Tail(ls))

\* str::trim_start
RECURSIVE TrimStart(_)
TrimStart(l) ==
    IF l # <<>> /\ IsWhitespace(l[1]) THEN TrimStart(Tail(l)) ELSE l

\* str::trim_end
RECURSIVE TrimEnd(_)
TrimEnd(l) ==
    IF l # <<>> /\ IsWhitespace(l[Len(l)])
    THEN TrimEnd(SubSeq(l, 1, Len(l) - 1))
    ELSE l

\* str::trim
Trim(l) == TrimEnd(TrimStart(l))

\* starts_with("//"): of the characters above only the two marks begin so.
StartsWithSlashes(l) == l # <<>> /\ l[1] \in {BotMark, TodoMark}

\* " ".repeat(n)
Spaces(n) == [i \in 1..n |-> " "]

\* The lines of the file as read (modify_file: lines).
lines == Lines(content)

\* Strategy 0: a blank line becomes the mark, a line that is no comment gets
\* the mark appended, a comment stays.
Annotate(ml, idx) ==
    IF Trim(ml[idx]) = <<>> THEN [ml EXCEPT ![idx] = <<BotMark>>]
    ELSE IF ~StartsWithSlashes(TrimStart(ml[idx]))
         THEN [ml EXCEPT ![idx] = @ \o <<" ", BotMark>>]
         ELSE ml

\* modified_lines.remove(line_idx)
SpacerRemoves(ml, idx) ==
    SubSeq(ml, 1, idx - 1) \o SubSeq(ml, idx + 1, Len(ml))

\* Strategy 1: an empty line is inserted after the chosen line, unless that
\* line is the last one (line_idx < modified_lines.len() - 1, from 0).
Spacer(ml, idx) ==
    IF idx < Len(ml)
    THEN SubSeq(ml, 1, idx) \o <<<<>>>> \o SubSeq(ml, idx + 1, Len(ml))
    ELSE ml

\* Strategy 2: a line that is not blank is trimmed and indented by
\* 0, 4, 8 or 12 spaces.
Reindent(ml, idx, units) ==
    IF Trim(ml[idx]) # <<>>
    THEN [ml EXCEPT ![idx] = Spaces(units * 4) \o Trim(ml[idx])]
    ELSE ml

\* Strategy 3: the line is replaced by the mark.
TodoStamp(ml, idx) == [ml EXCEPT ![idx] = <<TodoMark>>]

\* fs::read_to_string and content.lines(); a file without lines is left alone.
ReadFile ==
    /\ mpc = "read"
    /\ \E res \in Outcomes(TRUE) :
         mpc' = IF res = "err" THEN "err"
                ELSE IF lines = <<>> THEN "skipped" ELSE "choose"
    /\ UNCHANGED <<mainVars, worldVars, runVars, newVars, seedVars, selVars, content,
                   modified_lines, num_lines_to_change, edits, new_content>>

\* The largest edit count: max_lines.min(lines.len())
MaxEdits == Min(config.max_lines, Len(lines))

\* rng.gen_range(min_lines..=max_lines.min(lines.len())), which panics on an
\* empty range, and the copy of the lines the edits are made on.
ChooseCount ==
    /\ mpc = "choose"
    /\ IF config.min_lines > MaxEdits
       THEN /\ mpc' = "panic"
            /\ UNCHANGED <<num_lines_to_change, modified_lines>>
       ELSE /\ \E k \in config.min_lines..MaxEdits : num_lines_to_change' = k
            /\ modified_lines' = lines
            /\ mpc' = "edit"
    /\ UNCHANGED <<mainVars, worldVars, runVars, newVars, seedVars, selVars, content,
                   edits, new_content>>

\* rng.gen_range(0..lines.len()), counted from 1
LineIndices == 1..Len(lines)

\* One iteration of the loop: modified_lines[line_idx] panics when the index
\* is past the end, else the strategy yields the lines `edited`.
Edit(idx, edited) ==
    /\ mpc = "edit"
    /\ edits < num_lines_to_change
    /\ edits' = edits + 1
    /\ IF idx > Len(modified_lines)
       THEN mpc' = "index_panic" /\ modified_lines' = modified_lines
       ELSE mpc' = mpc /\ modified_lines' = edited
    /\ UNCHANGED <<mainVars, worldVars, runVars, newVars, seedVars, selVars, content,
                   num_lines_to_change, new_content>>

EditAnnotate == \E idx \in LineIndices : Edit(idx, Annotate(modified_lines, idx))

EditSpacer == \E idx \in LineIndices : Edit(idx, Spacer(modified_lines, idx))

EditReindent ==
    \E idx \in LineIndices : \E units \in 0..3 :
      Edit(idx, Reindent(modified_lines, idx, units))

EditTodoStamp == \E idx \in LineIndices : Edit(idx, TodoStamp(modified_lines, idx))

\* modified_lines.join("\n") and fs::write
WriteBack ==
    /\ mpc = "edit"
    /\ edits = num_lines_to_change
    /\ \E res \in Outcomes(TRUE) :
         /\ mpc' = IF res = "ok" THEN "written" ELSE "err"
         /\ new_content' = IF res = "ok" THEN Join(modified_lines) ELSE new_content
    /\ UNCHANGED <<mainVars, worldVars, runVars, newVars, seedVars, selVars, content,
                   modified_lines, num_lines_to_change, edits>>

InitModify ==
    /\ PipelineOff
    /\ SelOff
    /\ NewOff
    /\ SeedOff
    /\ config \in [min_files : {0}, max_files : {0},
                   min_lines : 0..MaxCount, max_lines : 0..MaxCount]
    /\ mpc = "read"
    /\ content \in Contents
    /\ modified_lines = <<>>
    /\ num_lines_to_change = 0
    /\ edits = 0
    /\ new_content = <<>>

NextModify ==
    \/ ReadFile \/ ChooseCount
    \/ EditAnnotate \/ EditSpacer \/ EditReindent \/ EditTodoStamp
    \/ WriteBack

SpecModify == InitModify /\ [][NextModify]_vars

(* --------------------- properties of modify_file ----------------------- *)

\* Whether s holds a "\r\n".
HasCRLF(s) == \E i \in 2..Len(s) : s[i] = "\n" /\ s[i - 1] = "\r"

\* Whether s holds a "\n" that no "\r" stands before.
HasLF(s) == \E i \in 1..Len(s) : s[i] = "\n" /\ (i = 1 \/ s[i - 1] # "\r")

EndsWithNewline(s) == s # <<>> /\ s[Len(s)] = "\n"

\* C7: with min_lines <= max_lines and a file of at least one line, choosing
\* the edit count does not abort, the count lies between min_lines and
\* min(max_lines, lines), and the file is written after exactly that many
\* edit operations.
C7_EditCount ==
    (config.min_lines <= config.max_lines /\ lines # <<>>) =>
      /\ mpc # "panic"
      /\ mpc \in {"edit", "written"} =>
           /\ config.min_lines <= num_lines_to_change
           /\ num_lines_to_change <= Min(config.max_lines, Len(lines))
      /\ mpc = "written" => edits = num_lines_to_change

\* C8: in the edit loop every chosen index, drawn from the length of the
\* lines as read, is an index of the lines being edited, which are never
\* fewer than the lines as read: no edit operation panics.
C8_IndexValid ==
    /\ mpc # "index_panic"
    /\ mpc \in {"edit", "written"} =>
         /\ Len(modified_lines) >= Len(lines)
         /\ \A idx \in LineIndices : idx \in DOMAIN modified_lines

\* C8 witness: a further edit is made after a blank line was inserted.
C8_Witness ==
    /\ mpc = "edit"
    /\ edits >= 2
    /\ Len(modified_lines) > Len(lines)

\* C9: the file as written has line terminators only of a kind the file as
\* read has, and ends with one if the file as read did.
C9_LineEndingsKept ==
    mpc = "written" =>
      /\ HasCRLF(new_content) => HasCRLF(content)
      /\ HasLF(new_content) => HasLF(content)
      /\ EndsWithNewline(content) => EndsWithNewline(new_content)

\* C10: a file of at least one byte is never rewritten as a file of no bytes.
C10_NeverTruncated ==
    (mpc = "written" /\ content # <<>>) => new_content # <<>>

\* C18: the spacer strategy, applied at any index the edit loop can choose,
\* the index of the last line included, inserts a blank line right after
\* that line: the sequence is longer by one.
C18_SpacerInserts ==
    mpc = "edit" =>
      \A idx \in LineIndices :
        LET after == Spacer(modified_lines, idx)
        IN /\ Len(after) = Len(modified_lines) + 1
           /\ after[idx + 1] = <<>>
           /\ SubSeq(after, 1, idx) = SubSeq(modified_lines, 1, idx)

(* --------------------------- GitHubBot::new ---------------------------- *)

\* The characters of a repo string: one that can stand in a name, and the
\* separator.
RepoChars == {"o", "/"}

RepoStrings == UNION {[1..n -> RepoChars] : n \in 0..MaxRepo}

\* config.repo.split('/'): the pieces between the separators, empty ones
\* included; a string without a separator is one piece.
RECURSIVE Split(_)
Split(s) ==
    IF \A i \in 1..Len(s) : s[i] # "/" THEN <<s>>
    ELSE LET k == CHOOSE i \in 1..Len(s) :
                    s[i] = "/" /\ \A j \in 1..(i - 1) : s[j] # "/"
         IN <<SubSeq(s, 1, k - 1)>> \o Split(SubSeq(s, k + 1, Len(s)))

\* GitHubBot::new: the token from the environment, the client (whose
\* construction can fail), the split of config.repo and the check of the
\* number of its parts.
New ==
    /\ npc = "start"
    /\ \E built \in BOOLEAN :
         LET repo_parts == Split(repo)
         IN IF token /\ built /\ Len(repo_parts) = 2
            THEN /\ npc' = "ok"
                 /\ repo_owner' = repo_parts[1]
                 /\ repo_name' = repo_parts[2]
            ELSE /\ npc' = "err"
                 /\ UNCHANGED <<repo_owner, repo_name>>
    /\ UNCHANGED <<mainVars, worldVars, runVars, selVars, modVars, seedVars, token, repo>>

InitNew ==
    /\ PipelineOff
    /\ config \in RunConfigs
    /\ SelOff
    /\ ModOff
    /\ SeedOff
    /\ npc = "start"
    /\ token \in BOOLEAN
    /\ repo \in RepoStrings
    /\ repo_owner = <<>>
    /\ repo_name = <<>>

NextNew == New

SpecNew == InitNew /\ [][NextNew]_vars

\* A repo string of the form owner/name: one separator, with a non-empty
\* part before it and a non-empty part after it.
WellFormed(s) ==
    /\ Cardinality({i \in 1..Len(s) : s[i] = "/"}) = 1
    /\ s[1] # "/"
    /\ s[Len(s)] # "/"

\* C14: GitHubBot::new succeeds only for a repo string of the form
\* owner/name with both parts non-empty, and fails for every other string.
C14_RepoValidated ==
    npc = "ok" => WellFormed(repo)

(* ------------------------ get_repository_files ------------------------- *)

\* A file of the working tree: the directories above it (from the root of
\* the repository), its stem and its extension ("" when it has none).
File(dirs, stem, ext) == [dirs |-> dirs, stem |-> stem, ext |-> ext]

\* src/lib.rs and README.md, the files of the seed step.
LibRs == File(<<"src">>, "lib", "rs")

Readme == File(<<>>, "README", "md")

\* The files a working tree is made of here.
TreeFiles ==
    { LibRs, Readme,
      File(<<>>, "NOTES", "TXT"),
      File(<<"docs", "api">>, "index", "json"),
      File(<<>>, "logo", "png"),
      File(<<>>, "Makefile", ""),
      File(<<".git">>, "config", "toml") }

WorkingTrees == {t \in SUBSET TreeFiles : Cardinality(t) <= MaxFiles}

\* ext.to_string_lossy().to_lowercase(), on the extensions met here
ToLowercase(ext) == IF ext = "TXT" THEN "txt" ELSE ext

\* collect_files: the extensions it lists
TextExtensions == {"rs", "txt", "md", "toml", "json", "yaml", "yml"}

\* The directories right below dir that hold a file of the tree.
SubDirs(dir, among) ==
    { SubSeq(f.dirs, 1, Len(dir) + 1) :
        f \in {g \in among : /\ Len(g.dirs) > Len(dir)
                            /\ SubSeq(g.dirs, 1, Len(dir)) = dir} }

\* A walk that lists no file at all.
CollectNothing(dir, among) == {}

\* collect_files: nothing below a directory named .git; else the files of
\* dir with a listed extension, and what the walk of each directory in it
\* collects.
RECURSIVE CollectFiles(_, _)
CollectFiles(dir, among) ==
    IF dir # <<>> /\ Last(dir) = ".git" THEN {}
    ELSE {f \in among : f.dirs = dir /\ f.ext # ""
                                    /\ ToLowercase(f.ext) \in TextExtensions}
         \cup UNION {CollectFiles(sub, among) : sub \in SubDirs(dir, among)}

\* The branch make_changes created and checked out before it calls
\* get_repository_files.
WorkBranch == "bot-update"

\* get_repository_files: the first walk; it can fail (read_dir).
Walk ==
    /\ gpc = "walk"
    /\ \/ /\ result' = CollectFiles(<<>>, wt)
          /\ was_empty' = (result' = {})
          /\ gpc' = IF result' = {} THEN "seed_lib" ELSE "returned"
       \/ /\ gpc' = "err"
          /\ UNCHANGED <<result, was_empty>>
    /\ UNCHANGED <<mainVars, worldVars, runVars, selVars, modVars, newVars,
                   primary_branch, wt, local_refs, origin_refs>>

\* create_dir_all(src) and fs::write(src/lib.rs)
SeedLib ==
    /\ gpc = "seed_lib"
    /\ \/ gpc' = "seed_readme" /\ wt' = wt \cup {LibRs}
       \/ gpc' = "err" /\ wt' = wt
    /\ UNCHANGED <<mainVars, worldVars, runVars, selVars, modVars, newVars,
                   primary_branch, result, was_empty, local_refs, origin_refs>>

\* fs::write(README.md) if !readme_file.exists()
SeedReadme ==
    /\ gpc = "seed_readme"
    /\ IF Readme \in wt
       THEN gpc' = "seed_commit" /\ wt' = wt
       ELSE \/ gpc' = "seed_commit" /\ wt' = wt \cup {Readme}
            \/ gpc' = "err" /\ wt' = wt
    /\ UNCHANGED <<mainVars, worldVars, runVars, selVars, modVars, newVars,
                   primary_branch, result, was_empty, local_refs, origin_refs>>

\* git add . and git commit -m "Add initial files": the commit is made on
\* the branch that is checked out; files below .git are not part of it.
SeedCommit ==
    /\ gpc = "seed_commit"
    /\ \/ /\ gpc' = "seed_push"
          /\ local_refs' = [local_refs EXCEPT ![WorkBranch] =
                              {f \in wt : ".git" \notin Range(f.dirs)}]
       \/ /\ gpc' = "err"
          /\ local_refs' = local_refs
    /\ UNCHANGED <<mainVars, worldVars, runVars, selVars, modVars, newVars,
                   primary_branch, wt, result, was_empty, origin_refs>>

\* git push origin main: the local branch main is sent to the branch main of
\* origin; without a local branch main the command fails.
SeedPush ==
    /\ gpc = "seed_push"
    /\ \/ /\ "main" \in DOMAIN local_refs
          /\ gpc' = "rewalk"
          /\ origin_refs' = [b \in DOMAIN origin_refs \cup {"main"} |->
                               IF b = "main" THEN local_refs["main"]
                               ELSE origin_refs[b]]
       \/ /\ gpc' = "err"
          /\ origin_refs' = origin_refs
    /\ UNCHANGED <<mainVars, worldVars, runVars, selVars, modVars, newVars,
                   primary_branch, wt, result, was_empty, local_refs>>

\* result.clear() and the second walk; Ok(result)
Rewalk ==
    /\ gpc = "rewalk"
    /\ \/ /\ result' = CollectFiles(<<>>, wt)
          /\ gpc' = "returned"
       \/ /\ gpc' = "err"
          /\ result' = {}
    /\ UNCHANGED <<mainVars, worldVars, runVars, selVars, modVars, newVars,
                   primary_branch, wt, was_empty, local_refs, origin_refs>>

\* A working tree right after make_changes has checked out and pulled the
\* primary branch and created the working branch from it: every file of
\* the tree outside .git is committed on all three.
InitSeed ==
    /\ PipelineOff
    /\ config \in RunConfigs
    /\ SelOff
    /\ ModOff
    /\ NewOff
    /\ gpc = "walk"
    /\ primary_branch \in Primaries
    /\ wt \in WorkingTrees
    /\ result = {}
    /\ was_empty = FALSE
    /\ local_refs = [b \in {primary_branch, WorkBranch} |->
                       {f \in wt : ".git" \notin Range(f.dirs)}]
    /\ origin_refs = [b \in {primary_branch} |-> {f \in wt : ".git" \notin Range(f.dirs)}]

NextSeed == Walk \/ SeedLib \/ SeedReadme \/ SeedCommit \/ SeedPush \/ Rewalk

SpecSeed == InitSeed /\ [][NextSeed]_vars

\* C16: when the first walk found no candidate and get_repository_files
\* returns, the seed files are committed on the primary branch of origin.
C16_SeedOnRemotePrimary ==
    (gpc = "returned" /\ was_empty) =>
      /\ primary_branch \in DOMAIN origin_refs
      /\ LibRs \in origin_refs[primary_branch]
      /\ Readme \in origin_refs[primary_branch]

\* C20: the list get_repository_files returns is never empty.
C20_CandidatesNonEmpty ==
    gpc = "returned" => result # {}

\* C20 witness: the first walk found nothing, the seed step ran, and the
\* second walk lists src/lib.rs.
C20_Witness ==
    /\ gpc = "returned"
    /\ was_empty
    /\ LibRs \in result

====
